---- MODULE Spec2Model ----
(***************************************************************************)
(* Model of the crash-handler bootstrap of CrashpadDemo:                   *)
(*   crashpad_helper.h  init(appName, appVersion, handlerPath,             *)
(*                           crashDirPath)                                 *)
(*   demo.cpp           main / initCrashpad / function1..3                 *)
(* The crashpad library (report database, settings, handler launch) and    *)
(* the file system are the environment: every call into them is modelled   *)
(* by the set of outcomes the caller can observe.                          *)
(***************************************************************************)
EXTENDS Integers, Sequences, FiniteSets, TLC

VARIABLES
  pc,              \* position of the single thread of the process
  args,            \* parameters of the running init call
  database,        \* init's local unique_ptr<CrashReportDatabase>
  settings,        \* init's local Settings*
  params,          \* init's locals url, annotations, attachments, arguments
  result,          \* value returned by the last init call
  heap,            \* CrashpadClient objects allocated with new, never freed
  held,            \* handles the caller got back from init, in call order
  ncalls,          \* number of init calls made by the process
  dirs,            \* file system: state of each crash directory
  uploadsEnabled,  \* file system: the settings record of each directory
  executables,     \* file system: handler paths that name an executable
  cwdWritable,     \* file system: can the working directory be written
  children,        \* handler processes running, named by their client
  registered,      \* client whose registration routes unhandled faults
  launches,        \* every StartHandler invocation, with its parameters
  faultSink,       \* clients whose handler was handed an unhandled fault
  stdout,          \* lines written to std::cout
  stderr,          \* lines written to std::cerr
  exitCode,        \* <<status>> once main has returned, <<>> before
  trace,           \* history: steps taken by the running init call
  entry            \* history: file system and heap when init was entered

vars == <<pc, args, database, settings, params, result, heap, held,
          ncalls, dirs, uploadsEnabled, executables, cwdWritable, children,
          registered, launches, faultSink, stdout, stderr, exitCode, trace,
          entry>>

----------------------------------------------------------------------------
(* Bounds and input domains *)

MaxCalls == 3

DemoDb == "crashpad_db"

DemoHandler == "crashpad_handler"

CrashDirs == {DemoDb, "/root/denied"}

HandlerPaths == {DemoHandler, "/does/not/exist"}

DirStates == {"absent", "writable", "unwritable"}

Apps == { [appName |-> "crashpaddemo", appVersion |-> "0.1"],
          [appName |-> "editor", appVersion |-> "2.0"] }

----------------------------------------------------------------------------
(* Values *)

NULL == 0

NullPtr == [null |-> TRUE, path |-> ""]

PtrTo(path) == [null |-> FALSE, path |-> path]

NoArgs == [appName |-> "", appVersion |-> "", handlerPath |-> "",
           crashDirPath |-> ""]

EmptyMap == [k \in {} |-> ""]

MapAssign(m, key, value) ==
  [k \in DOMAIN m \cup {key} |-> IF k = key THEN value ELSE m[k]]

NoParams == [url |-> "", annotations |-> EmptyMap, attachments |-> <<>>,
             arguments |-> <<>>]

Snapshot == [dirs |-> dirs, uploadsEnabled |-> uploadsEnabled, heap |-> heap,
             children |-> children, launches |-> Len(launches),
             stderr |-> Len(stderr)]

----------------------------------------------------------------------------
(* The environment: what the crashpad library and the file system answer *)

\* CrashReportDatabase::Initialize(crashDir): TRUE for a database, FALSE for
\* NULL.  A writable directory always yields a database.
InitializeOutcomes(dirState) ==
  IF dirState = "writable" THEN {TRUE} ELSE {TRUE, FALSE}

\* database->GetSettings(): TRUE for a settings view, FALSE for NULL.
GetSettingsOutcomes(dirState) ==
  IF dirState = "writable" THEN {TRUE} ELSE {TRUE, FALSE}

\* settings->SetUploadsEnabled(v): does the write reach the settings record.
WriteSucceeds(dirState) == dirState = "writable"

\* client->StartHandler(handler, ...) with asynchronous_start = false: the
\* handler is spawned and acknowledges iff the path names an executable.
StartHandlerStatus(handlerPath, execs) == handlerPath \in execs

\* A successful StartHandler installs the process-wide fault routing for its
\* client, replacing the one installed before.
Registration(status, c, current) == IF status THEN c ELSE current

----------------------------------------------------------------------------
(* init, crashpad_helper.h *)

Url == "https://o0.ingest.sentry.io/api/0/minidump/?sentry_key=examplePublicKey"


AnnotationsSwapped(appName, appVersion) ==
  MapAssign(MapAssign(EmptyMap, "product", appVersion), "version", appName)

Annotations(appName, appVersion) ==
  MapAssign(MapAssign(EmptyMap, "product", appName), "version", appVersion)

Attachments == <<>>

Arguments == Append(<<>>, "--no-rate-limit")


UploadsDisabledArg == FALSE

UploadsEnabledArg == TRUE


DiagnosticCopied(step) ==
  CASE step = "open"     -> <<"Could not initialize database">>
    [] step = "settings" -> <<"Could not initialize database">>
    [] step = "start"    -> <<"Could not start handler">>

Diagnostic(step) ==
  CASE step = "open"     -> <<"Could not initialize database">>
    [] step = "settings" -> <<"Could not get settings">>
    [] step = "start"    -> <<"Could not start handler">>


StepAfterSkippingEnable(step) ==
  CASE step = "open"     -> "settings"
    [] step = "settings" -> "assemble"
    [] step = "enable"   -> "assemble"
    [] step = "assemble" -> "start"

StepAfter(step) ==
  CASE step = "open"     -> "settings"
    [] step = "settings" -> "enable"
    [] step = "enable"   -> "assemble"
    [] step = "assemble" -> "start"


NewClientShared(allocated) == 1

NewClient(allocated) == Cardinality(allocated) + 1

LaunchParams(a, p) ==
  [handler            |-> a.handlerPath,
   database           |-> a.crashDirPath,
   metrics_dir        |-> a.crashDirPath,
   url                |-> p.url,
   annotations        |-> p.annotations,
   arguments          |-> p.arguments,
   restartable        |-> TRUE,
   asynchronous_start |-> FALSE,
   attachments        |-> p.attachments]


ResultOfUnchecked(status, c) == c

ResultOf(status, c) == IF status = FALSE THEN NULL ELSE c

\* `return v`: the locals go out of scope, the unique_ptr closes the database
Return(v) ==
  /\ result' = v
  /\ pc' = "returned"
  /\ database' = NullPtr
  /\ settings' = NullPtr
  /\ params' = NoParams

EnterInit(appName, appVersion, handlerPath, crashDirPath) ==
  /\ args' = [appName |-> appName, appVersion |-> appVersion,
              handlerPath |-> handlerPath, crashDirPath |-> crashDirPath]
  /\ stdout' = Append(stdout, "Initializing crashpad handler")
  /\ ncalls' = ncalls + 1
  /\ trace' = <<>>
  /\ entry' = Snapshot
  /\ pc' = "open"

\* OpenDatabase with `new CrashpadClient()` hoisted above step 1
OpenDatabaseAfterNew ==
  /\ pc = "open"
  /\ heap' = heap \cup {NewClient(heap)}
  /\ LET crashDir == args.crashDirPath IN
     \E ok \in InitializeOutcomes(dirs[crashDir]) :
       /\ trace' = Append(trace, "Initialize")
       /\ IF ok
          THEN /\ database' = PtrTo(crashDir)
               /\ dirs' = [dirs EXCEPT ![crashDir] =
                             IF @ = "absent" THEN "writable" ELSE @]
               /\ pc' = StepAfter("open")
               /\ UNCHANGED <<settings, params, result, stderr>>
          ELSE /\ stderr' = stderr \o Diagnostic("open")
               /\ Return(NULL)
               /\ UNCHANGED dirs
  /\ UNCHANGED <<args, held, ncalls, uploadsEnabled, executables,
                 cwdWritable, children, registered, launches, faultSink,
                 stdout, exitCode, entry>>

OpenDatabase ==
  /\ pc = "open"
  /\ LET crashDir == args.crashDirPath IN
     \E ok \in InitializeOutcomes(dirs[crashDir]) :
       /\ trace' = Append(trace, "Initialize")
       /\ IF ok
          THEN /\ database' = PtrTo(crashDir)
               /\ dirs' = [dirs EXCEPT ![crashDir] =
                             IF @ = "absent" THEN "writable" ELSE @]
               /\ pc' = StepAfter("open")
               /\ UNCHANGED <<settings, params, result, stderr>>
          ELSE /\ stderr' = stderr \o Diagnostic("open")
               /\ Return(NULL)
               /\ UNCHANGED dirs
  /\ UNCHANGED <<args, heap, held, ncalls, uploadsEnabled, executables,
                 cwdWritable, children, registered, launches, faultSink,
                 stdout, exitCode, entry>>

GetSettings ==
  /\ pc = "settings"
  /\ \E ok \in GetSettingsOutcomes(dirs[database.path]) :
       /\ trace' = Append(trace, "GetSettings")
       /\ IF ok
          THEN /\ settings' = PtrTo(database.path)
               /\ pc' = StepAfter("settings")
               /\ UNCHANGED <<database, params, result, stderr>>
          ELSE /\ stderr' = stderr \o Diagnostic("settings")
               /\ Return(NULL)
  /\ UNCHANGED <<args, heap, held, ncalls, dirs, uploadsEnabled, executables,
                 cwdWritable, children, registered, launches, faultSink,
                 stdout, exitCode, entry>>

\* the bool SetUploadsEnabled returns is discarded
EnableUploads ==
  /\ pc = "enable"
  /\ trace' = Append(trace, "SetUploadsEnabled")
  /\ uploadsEnabled' =
       IF WriteSucceeds(dirs[settings.path])
       THEN [uploadsEnabled EXCEPT ![settings.path] = UploadsEnabledArg]
       ELSE uploadsEnabled
  /\ pc' = StepAfter("enable")
  /\ UNCHANGED <<args, database, settings, params, result, heap, held,
                 ncalls, dirs, executables, cwdWritable, children, registered,
                 launches, faultSink, stdout, stderr, exitCode, entry>>

Assemble ==
  /\ pc = "assemble"
  /\ params' = [url         |-> Url,
                annotations |-> Annotations(args.appName, args.appVersion),
                attachments |-> Attachments,
                arguments   |-> Arguments]
  /\ pc' = StepAfter("assemble")
  /\ UNCHANGED <<args, database, settings, result, heap, held, ncalls,
                 dirs, uploadsEnabled, executables, cwdWritable, children,
                 registered, launches, faultSink, stdout, stderr, exitCode,
                 trace, entry>>

StartHandler ==
  /\ pc = "start"
  /\ LET c == NewClient(heap)
         status == StartHandlerStatus(args.handlerPath, executables)
     IN /\ heap' = heap \cup {c}
        /\ launches' = Append(launches, LaunchParams(args, params))
        /\ trace' = trace \o <<"new CrashpadClient", "StartHandler">>
        /\ children' = IF status THEN children \cup {c} ELSE children
        /\ registered' = Registration(status, c, registered)
        /\ stderr' = IF status = FALSE THEN stderr \o Diagnostic("start")
                                       ELSE stderr
        /\ Return(ResultOf(status, c))
  /\ UNCHANGED <<args, held, ncalls, dirs, uploadsEnabled, executables,
                 cwdWritable, faultSink, stdout, exitCode, entry>>

InitStep == OpenDatabase \/ GetSettings \/ EnableUploads \/ Assemble
              \/ StartHandler

----------------------------------------------------------------------------
(* A process that uses the facade: any inputs, several calls in sequence *)

CallInit ==
  /\ pc = "idle"
  /\ ncalls < MaxCalls
  /\ \E app \in Apps, h \in HandlerPaths, d \in CrashDirs :
       EnterInit(app.appName, app.appVersion, h, d)
  /\ UNCHANGED <<database, settings, params, result, heap, held, dirs,
                 uploadsEnabled, executables, cwdWritable, children,
                 registered, launches, faultSink, stderr, exitCode>>

TakeHandle ==
  /\ pc = "returned"
  /\ held' = Append(held, result)
  /\ pc' = "idle"
  /\ UNCHANGED <<args, database, settings, params, result, heap,
                 ncalls, dirs, uploadsEnabled, executables, cwdWritable,
                 children, registered, launches, faultSink, stdout, stderr,
                 exitCode, trace, entry>>

DiskStates ==
  { f \in [dirs : [CrashDirs -> DirStates],
           uploadsEnabled : [CrashDirs -> BOOLEAN]] :
      \A d \in CrashDirs : f.dirs[d] = "absent" => ~f.uploadsEnabled[d] }

InitLocals ==
  /\ args = NoArgs
  /\ database = NullPtr
  /\ settings = NullPtr
  /\ params = NoParams
  /\ result = NULL
  /\ heap = {}
  /\ held = <<>>
  /\ ncalls = 0
  /\ children = {}
  /\ registered = NULL
  /\ launches = <<>>
  /\ faultSink = {}
  /\ stdout = <<>>
  /\ stderr = <<>>
  /\ exitCode = <<>>
  /\ trace = <<>>
  /\ entry = Snapshot

Init ==
  /\ pc = "idle"
  /\ \E f \in DiskStates : dirs = f.dirs /\ uploadsEnabled = f.uploadsEnabled
  /\ executables = {DemoHandler}
  /\ cwdWritable = TRUE
  /\ InitLocals

Next == CallInit \/ InitStep \/ TakeHandle

Spec == Init /\ [][Next]_vars

----------------------------------------------------------------------------
(* The demo harness, demo.cpp *)

MainFailReturn == -1

\* exit status of a process whose main returns r
ExitStatus(r) == r % 256


MainProceedsAlways(c) == TRUE

MainProceeds(c) == ~(c = NULL)

MainEnter ==
  /\ pc = "main"
  /\ stdout' = Append(stdout, "Entering main()")
  /\ pc' = "initCrashpad"
  /\ UNCHANGED <<args, database, settings, params, result, heap, held, ncalls,
                 dirs, uploadsEnabled, executables, cwdWritable, children,
                 registered, launches, faultSink, stderr, exitCode, trace,
                 entry>>

\* fs::create_directory(db) throws when the directory cannot be created; main
\* catches nothing, so the process is terminated before init is called
InitCrashpad ==
  /\ pc = "initCrashpad"
  /\ IF dirs[DemoDb] = "absent" /\ ~cwdWritable
     THEN /\ pc' = "terminated"
          /\ UNCHANGED dirs
     ELSE /\ dirs' = [dirs EXCEPT ![DemoDb] =
                        IF @ = "absent" THEN "writable" ELSE @]
          /\ pc' = "call_init"
  /\ UNCHANGED <<args, database, settings, params, result, heap, held, ncalls,
                 uploadsEnabled, executables, cwdWritable, children,
                 registered, launches, faultSink, stdout, stderr, exitCode,
                 trace, entry>>

DemoCallInit ==
  /\ pc = "call_init"
  /\ EnterInit("crashpaddemo", "0.1", DemoHandler, DemoDb)
  /\ UNCHANGED <<database, settings, params, result, heap, held, dirs,
                 uploadsEnabled, executables, cwdWritable, children,
                 registered, launches, faultSink, stderr, exitCode>>

MainCheck ==
  /\ pc = "returned"
  /\ held' = <<result>>
  /\ IF MainProceeds(result)
     THEN /\ pc' = "function1"
          /\ UNCHANGED <<stdout, exitCode>>
     ELSE /\ stdout' = Append(stdout, "Crashpad failed to unitialize.")
          /\ exitCode' = <<ExitStatus(MainFailReturn)>>
          /\ pc' = "exited"
  /\ UNCHANGED <<args, database, settings, params, result, heap, ncalls, dirs,
                 uploadsEnabled, executables, cwdWritable, children,
                 registered, launches, faultSink, stderr, trace, entry>>

Function1 ==
  /\ pc = "function1"
  /\ stdout' = Append(stdout, "Entering function1()")
  /\ pc' = "function2"
  /\ UNCHANGED <<args, database, settings, params, result, heap, held, ncalls,
                 dirs, uploadsEnabled, executables, cwdWritable, children,
                 registered, launches, faultSink, stderr, exitCode, trace,
                 entry>>

Function2 ==
  /\ pc = "function2"
  /\ stdout' = Append(stdout, "Entering function2()")
  /\ pc' = "function3"
  /\ UNCHANGED <<args, database, settings, params, result, heap, held, ncalls,
                 dirs, uploadsEnabled, executables, cwdWritable, children,
                 registered, launches, faultSink, stderr, exitCode, trace,
                 entry>>

\* memset(NULL, 1, 1) is undefined: the store faults, or the build drops it
\* and the chain returns 0 to main
Function3 ==
  /\ pc = "function3"
  /\ stdout' = Append(stdout, "Entering function3()... BOOM!")
  /\ \E faults \in BOOLEAN :
       IF faults
       THEN /\ pc' = "crashed"
            /\ faultSink' = IF registered = NULL THEN {} ELSE {registered}
       ELSE /\ pc' = "main_return"
            /\ UNCHANGED faultSink
  /\ UNCHANGED <<args, database, settings, params, result, heap, held, ncalls,
                 dirs, uploadsEnabled, executables, cwdWritable, children,
                 registered, launches, stderr, exitCode, trace, entry>>

MainReturn ==
  /\ pc = "main_return"
  /\ exitCode' = <<ExitStatus(0)>>
  /\ pc' = "exited"
  /\ UNCHANGED <<args, database, settings, params, result, heap, held, ncalls,
                 dirs, uploadsEnabled, executables, cwdWritable, children,
                 registered, launches, faultSink, stdout, stderr, trace,
                 entry>>

\* the demo touches no crash directory but DemoDb
HarnessInit ==
  /\ pc = "main"
  /\ \E f \in DiskStates :
       /\ \A d \in CrashDirs \ {DemoDb} : f.dirs[d] = "absent"
       /\ dirs = f.dirs
       /\ uploadsEnabled = f.uploadsEnabled
  /\ executables \in SUBSET {DemoHandler}
  /\ cwdWritable \in BOOLEAN
  /\ InitLocals

HarnessNext == MainEnter \/ InitCrashpad \/ DemoCallInit \/ InitStep \/ MainCheck
                 \/ Function1 \/ Function2 \/ Function3 \/ MainReturn

HarnessSpec == HarnessInit /\ [][HarnessNext]_vars

----------------------------------------------------------------------------
(* Properties *)

Last(seq) == seq[Len(seq)]

IsPrefix(s, t) == Len(s) <= Len(t) /\ SubSeq(t, 1, Len(s)) = s

Count(seq, x) == Cardinality({i \in DOMAIN seq : seq[i] = x})

FullOrder == <<"Initialize", "GetSettings", "SetUploadsEnabled",
               "new CrashpadClient", "StartHandler">>

ExpectedLine(step) ==
  CASE step = "Initialize"   -> "Could not initialize database"
    [] step = "GetSettings"  -> "Could not get settings"
    [] step = "StartHandler" -> "Could not start handler"
    [] OTHER                 -> ""

\* the values init has returned so far, in call order
Returned == IF pc = "returned" THEN Append(held, result) ELSE held

LiveHandles == {Returned[i] : i \in DOMAIN Returned} \ {NULL}

ChainLines == {"Entering function1()", "Entering function2()",
               "Entering function3()... BOOM!"}

\* C1: a handle init has returned non-null belongs to a launch whose database
\* directory was opened, whose settings record has uploadsEnabled = TRUE, and
\* whose handler process was started and acknowledged.
C1_LiveHandleGuarantees ==
  \A h \in LiveHandles :
    /\ h \in DOMAIN launches
    /\ dirs[launches[h].database] # "absent"
    /\ uploadsEnabled[launches[h].database] = TRUE
    /\ h \in children

\* C2: an init call that returns NULL has written exactly one line to stderr,
\* the line of the step it stopped at, has run every step at most once and in
\* order, and has run nothing after the failed step; a call that returns a
\* handle has written nothing to stderr.
C2_FailureReporting ==
  pc = "returned" =>
    IF result = NULL
    THEN /\ trace # <<>>
         /\ IsPrefix(trace, FullOrder)
         /\ Last(trace) \in {"Initialize", "GetSettings", "StartHandler"}
         /\ Len(stderr) = entry.stderr + 1
         /\ Last(stderr) = ExpectedLine(Last(trace))
    ELSE /\ trace = FullOrder
         /\ Len(stderr) = entry.stderr

C2_Witness ==
  /\ pc = "returned"
  /\ result = NULL
  /\ stderr = <<"Could not initialize database", "Could not start handler",
                "Could not get settings">>

C4_RepeatedInit ==
  (/\ pc = "returned"
   /\ entry.dirs[args.crashDirPath] = "writable"
   /\ args.handlerPath \in executables)
  => /\ result # NULL
     /\ result \in children
     /\ uploadsEnabled[args.crashDirPath] = TRUE
     /\ Count(trace, "SetUploadsEnabled") = 1

C4_Witness ==
  /\ pc = "returned"
  /\ ncalls = 2
  /\ Len(launches) = 2
  /\ launches[1].database = launches[2].database
  /\ entry.dirs[args.crashDirPath] = "writable"
  /\ entry.uploadsEnabled[args.crashDirPath] = TRUE
  /\ held[1] # NULL
  /\ result # NULL
  /\ uploadsEnabled[args.crashDirPath] = TRUE

\* C5: every StartHandler invocation carries database = metrics directory =
\* crashDirPath, annotations exactly {product -> appName, version ->
\* appVersion}, arguments <<"--no-rate-limit">>, no attachments,
\* restartable = TRUE and asynchronous_start = FALSE, for the inputs of the
\* call that made it.
C5_LaunchParameters ==
  /\ \A i \in DOMAIN launches :
       /\ launches[i].metrics_dir = launches[i].database
       /\ DOMAIN launches[i].annotations = {"product", "version"}
       /\ launches[i].arguments = <<"--no-rate-limit">>
       /\ launches[i].attachments = <<>>
       /\ launches[i].restartable = TRUE
       /\ launches[i].asynchronous_start = FALSE
  /\ Len(launches) > entry.launches =>
       /\ Last(launches).handler = args.handlerPath
       /\ Last(launches).database = args.crashDirPath
       /\ Last(launches).annotations["product"] = args.appName
       /\ Last(launches).annotations["version"] = args.appVersion

C5_Witness ==
  /\ Len(launches) = 2
  /\ launches[1].annotations # launches[2].annotations
  /\ launches[1].database # launches[2].database

\* C6: an init call against a directory that cannot be written returns NULL
\* and its diagnostic names the database or the settings step.
C6_UnwritableDirectoryAbsent ==
  (pc = "returned" /\ entry.dirs[args.crashDirPath] = "unwritable")
  => /\ result = NULL
     /\ Len(stderr) = entry.stderr + 1
     /\ Last(stderr) \in {"Could not initialize database",
                          "Could not get settings"}

\* C7: an init call with a writable crash directory and a handler path that
\* names no executable returns NULL, reports the handler step, and has
\* started no handler process.
C7_MissingHandlerAbsent ==
  (/\ pc = "returned"
   /\ entry.dirs[args.crashDirPath] = "writable"
   /\ args.handlerPath \notin executables)
  => /\ result = NULL
     /\ children = entry.children
     /\ ncalls = 1 => children = {}
     /\ Last(stderr) = "Could not start handler"

C7_Witness ==
  /\ pc = "returned"
  /\ entry.dirs[args.crashDirPath] = "writable"
  /\ args.handlerPath \notin executables
  /\ Last(trace) = "StartHandler"
  /\ result = NULL
  /\ children = {}

C9_Routing ==
  /\ \A i, j \in DOMAIN Returned :
       (i < j /\ Returned[i] # NULL /\ Returned[j] # NULL)
         => Returned[i] # Returned[j]
  /\ LiveHandles \subseteq children
  /\ LiveHandles \subseteq heap
  /\ IF LiveHandles = {}
     THEN registered = NULL
     ELSE \E i \in DOMAIN Returned :
            /\ Returned[i] = registered
            /\ registered # NULL
            /\ \A j \in DOMAIN Returned : j > i => Returned[j] = NULL

C9_Handles ==
  /\ []C9_Routing
  /\ [][/\ heap \subseteq heap'
        /\ children \subseteq children'
        /\ registered # NULL => registered' # NULL]_vars

C9_Witness ==
  /\ Len(held) = 2
  /\ held[1] # NULL
  /\ held[2] # NULL
  /\ held[1] # held[2]
  /\ registered = held[2]
  /\ held[1] \in children

\* C10: an init call that fails at Initialize or at GetSettings has changed
\* no settings record, allocated no client and launched nothing; a failed
\* call that turned uploadsEnabled on failed at StartHandler.
C10_FailureFrame ==
  (pc = "returned" /\ result = NULL) =>
    /\ Last(trace) \in {"Initialize", "GetSettings"} =>
         /\ uploadsEnabled = entry.uploadsEnabled
         /\ heap = entry.heap
         /\ children = entry.children
         /\ Len(launches) = entry.launches
    /\ uploadsEnabled # entry.uploadsEnabled =>
         /\ Last(trace) = "StartHandler"
         /\ uploadsEnabled = [entry.uploadsEnabled
                                EXCEPT ![args.crashDirPath] = TRUE]

C10_Witness ==
  /\ pc = "returned"
  /\ result = NULL
  /\ Last(trace) = "GetSettings"
  /\ ncalls = 2
  /\ heap # {}
  /\ \E d \in CrashDirs : uploadsEnabled[d] = FALSE

====
